---- MODULE Spec2Model ----
(***************************************************************************)
(* Verification model of covins_backend/optimization_be.cpp: the four      *)
(* optimization procedures of the COVINS backend                           *)
(*   GlobalBundleAdjustment, LocalBundleAdjustment, OptimizeRelativePose,  *)
(*   PoseGraphOptimization4DoF, PoseGraphOptimization.                     *)
(*                                                                         *)
(* Numbers.  A double is modelled exactly as an element (a + b*sqrt(2))/8  *)
(* of the ring Z[sqrt 2]/8, written <<a, b>>.  Rotations are the 24        *)
(* rotation matrices with integer entries (all angles multiples of 90      *)
(* degrees); the quaternions of these rotations have components in         *)
(* {0, +-1/2, +-sqrt(2)/2, +-1}, so every conversion between matrices,     *)
(* Euler angles and quaternions that the code performs is computed here    *)
(* without rounding.                                                       *)
(*                                                                         *)
(* The nonlinear solver (ceres::Solve) is modelled by what the code relies *)
(* on: it leaves constant blocks and blocks outside the problem alone, it  *)
(* returns the initial point when every residual is zero there, and        *)
(* otherwise it may return any value of its domain for every free block.   *)
(***************************************************************************)
EXTENDS Integers, Sequences, FiniteSets, TLC

----------------------------------------------------------------------------
(* Exact arithmetic on doubles: <<a, b>> is (a + b*sqrt(2)) / 8.           *)

QInt(n) == <<8 * n, 0>>
QZero == QInt(0)
QOne == QInt(1)
QHalf == <<4, 0>>
QAdd(p, q) == <<p[1] + q[1], p[2] + q[2]>>
QNeg(p) == <<0 - p[1], 0 - p[2]>>
QSub(p, q) == QAdd(p, QNeg(q))
QMul(p, q) == <<(p[1] * q[1] + 2 * p[2] * q[2]) \div 8, (p[1] * q[2] + p[2] * q[1]) \div 8>>
QScale(n, p) == <<n * p[1], n * p[2]>>
QIsInt(p) == p[2] = 0 /\ p[1] % 8 = 0
QToInt(p) == p[1] \div 8
\* p < 0, decided on a + b*sqrt(2) by comparing squares
QNegative(p) ==
    \/ p[1] < 0 /\ p[2] <= 0
    \/ p[1] <= 0 /\ p[2] < 0
    \/ p[1] < 0 /\ p[2] > 0 /\ p[1] * p[1] > 2 * p[2] * p[2]
    \/ p[1] > 0 /\ p[2] < 0 /\ 2 * p[2] * p[2] > p[1] * p[1]

\* cos and sin of an angle given in degrees, a multiple of 45
CosDeg(d) ==
    LET m == d % 360
    IN  CASE m = 0 -> QOne
          [] m \in {45, 315} -> <<0, 4>>
          [] m \in {90, 270} -> QZero
          [] m \in {135, 225} -> <<0, -4>>
          [] m = 180 -> QInt(-1)
SinDeg(d) == CosDeg(d - 90)

\* atan2 in degrees on the integer arguments a rotation matrix of the model gives
Atan2Deg(y, x) ==
    CASE x > 0 /\ y = 0 -> 0
      [] x = 0 /\ y > 0 -> 90
      [] x < 0 /\ y = 0 -> 180
      [] x = 0 /\ y < 0 -> -90
      [] x = 0 /\ y = 0 -> 0

\* the square roots the quaternion conversion needs
QSqrt(n) ==
    CASE n = 1 -> QInt(1)
      [] n = 2 -> <<0, 8>>
      [] n = 4 -> QInt(2)
\* 0.5 / t for t a square root above
QHalfOver(n) ==
    CASE n = 1 -> <<4, 0>>
      [] n = 2 -> <<0, 2>>
      [] n = 4 -> <<2, 0>>

----------------------------------------------------------------------------
(* Vectors, rotation matrices and rigid transforms (TransformType).        *)

Vec(x, y, z) == <<x, y, z>>
VZero == Vec(0, 0, 0)
VAdd(u, v) == <<u[1] + v[1], u[2] + v[2], u[3] + v[3]>>
VSub(u, v) == <<u[1] - v[1], u[2] - v[2], u[3] - v[3]>>
MatVec(R, v) == [i \in 1..3 |-> R[i][1] * v[1] + R[i][2] * v[2] + R[i][3] * v[3]]
MatMul(A, B) == [i \in 1..3 |-> [j \in 1..3 |-> A[i][1] * B[1][j] + A[i][2] * B[2][j] + A[i][3] * B[3][j]]]
MatT(A) == [i \in 1..3 |-> [j \in 1..3 |-> A[j][i]]]
MatI == <<<<1, 0, 0>>, <<0, 1, 0>>, <<0, 0, 1>>>>

\* a rigid transform T: rotation block T.R and translation block T.t
Tf(R, t) == [R |-> R, t |-> t]
TfI == Tf(MatI, VZero)
TfMul(A, B) == Tf(MatMul(A.R, B.R), VAdd(MatVec(A.R, B.t), A.t))
TfInv(A) == Tf(MatT(A.R), MatVec(MatT(A.R), VSub(VZero, A.t)))
TfApply(A, p) == VAdd(MatVec(A.R, p), A.t)

----------------------------------------------------------------------------
(* Conversions between rotation matrices, Euler angles and quaternions.    *)

\* ypr2R: rotation matrix of (yaw, pitch, roll) in degrees, Rz * Ry * Rx
ypr2R(ypr) ==
    LET cy == QToInt(CosDeg(ypr[1]))
        sy == QToInt(SinDeg(ypr[1]))
        cp == QToInt(CosDeg(ypr[2]))
        sp == QToInt(SinDeg(ypr[2]))
        cr == QToInt(CosDeg(ypr[3]))
        sr == QToInt(SinDeg(ypr[3]))
        Rz == <<<<cy, 0 - sy, 0>>, <<sy, cy, 0>>, <<0, 0, 1>>>>
        Ry == <<<<cp, 0, sp>>, <<0, 1, 0>>, <<0 - sp, 0, cp>>>>
        Rx == <<<<1, 0, 0>>, <<0, cr, 0 - sr>>, <<0, sr, cr>>>>
    IN  MatMul(MatMul(Rz, Ry), Rx)

\* Utils::R2ypr: (yaw, pitch, roll) in degrees of a rotation matrix
R2ypr(R) ==
    LET y == Atan2Deg(R[2][1], R[1][1])
        cy == QToInt(CosDeg(y))
        sy == QToInt(SinDeg(y))
        p == Atan2Deg(0 - R[3][1], R[1][1] * cy + R[2][1] * sy)
        r == Atan2Deg(R[1][3] * sy - R[2][3] * cy, R[2][2] * cy - R[1][2] * sy)
    IN  <<y, p, r>>

\* eulerAnglesToQuat: quaternion of (yaw, pitch, roll) in degrees, with w >= 0
eulerAnglesToQuat(yaw, pitch, roll) ==
    LET cy == CosDeg(yaw \div 2)
        sy == SinDeg(yaw \div 2)
        cp == CosDeg(pitch \div 2)
        sp == SinDeg(pitch \div 2)
        cr == CosDeg(roll \div 2)
        sr == SinDeg(roll \div 2)
        w == QAdd(QMul(QMul(cy, cp), cr), QMul(QMul(sy, sp), sr))
        x == QSub(QMul(QMul(cy, cp), sr), QMul(QMul(sy, sp), cr))
        y == QAdd(QMul(QMul(sy, cp), sr), QMul(QMul(cy, sp), cr))
        z == QSub(QMul(QMul(sy, cp), cr), QMul(QMul(cy, sp), sr))
    IN  IF QNegative(w)
        THEN [x |-> QNeg(x), y |-> QNeg(y), z |-> QNeg(z), w |-> QNeg(w)]
        ELSE [x |-> x, y |-> y, z |-> z, w |-> w]

\* QuaternionType(Matrix3Type): the quaternion of a rotation matrix
RotToQuat(R) ==
    LET tr == R[1][1] + R[2][2] + R[3][3]
    IN  IF tr > 0
        THEN LET h == QHalfOver(tr + 1)
             IN  [w |-> QMul(QHalf, QSqrt(tr + 1)),
                  x |-> QScale(R[3][2] - R[2][3], h),
                  y |-> QScale(R[1][3] - R[3][1], h),
                  z |-> QScale(R[2][1] - R[1][2], h)]
        ELSE LET i0 == IF R[2][2] > R[1][1] THEN 2 ELSE 1
                 i == IF R[3][3] > R[i0][i0] THEN 3 ELSE i0
                 j == (i % 3) + 1
                 k == (j % 3) + 1
                 n == R[i][i] - R[j][j] - R[k][k] + 1
                 h == QHalfOver(n)
                 v == [c \in 1..3 |->
                         IF c = i THEN QMul(QHalf, QSqrt(n))
                         ELSE IF c = j THEN QScale(R[j][i] + R[i][j], h)
                         ELSE QScale(R[k][i] + R[i][k], h)]
             IN  [w |-> QScale(R[k][j] - R[j][k], h), x |-> v[1], y |-> v[2], z |-> v[3]]

\* Quaternion::toRotationMatrix
QuatToRot(q) ==
    LET two(p) == QScale(2, p)
        xx == QMul(q.x, q.x)
        yy == QMul(q.y, q.y)
        zz == QMul(q.z, q.z)
        xy == QMul(q.x, q.y)
        xz == QMul(q.x, q.z)
        yz == QMul(q.y, q.z)
        wx == QMul(q.w, q.x)
        wy == QMul(q.w, q.y)
        wz == QMul(q.w, q.z)
        e(p) == QToInt(p)
    IN  <<<<e(QSub(QOne, two(QAdd(yy, zz)))), e(two(QSub(xy, wz))), e(two(QAdd(xz, wy)))>>,
          <<e(two(QAdd(xy, wz))), e(QSub(QOne, two(QAdd(xx, zz)))), e(two(QSub(yz, wx)))>>,
          <<e(two(QSub(xz, wy))), e(two(QAdd(yz, wx))), e(QSub(QOne, two(QAdd(xx, yy))))>>>>

\* the angles of the model and the rotation matrices they generate
Angles == {0, 90, 180, -90}
RotSet == {ypr2R(<<y, p, r>>) : y \in Angles, p \in Angles, r \in Angles}

----------------------------------------------------------------------------
(* The map: keyframes, landmarks, loop constraints, configuration.         *)

\* bounds of the model
NumKF == 3
NumLM == 2

\* program constants
th_min_observations == 2
WindowSize == 4

VARIABLES
    map,     \* [id_map_, keyframes]: the map's agent id and GetKeyframesVec() order
    kfs,     \* keyframe index -> keyframe state
    lms,     \* landmark index -> landmark state
    loops,   \* GetLoopConstraints(): sequence of loop constraints
    cfg,     \* covins_params: the configuration
    pc,      \* "idle", "gba_main", "done" (the call returned), "aborted" (exit(-1))
    call     \* the call in progress or completed: arguments, pre-state, problem, solution

vars == <<map, kfs, lms, loops, cfg, pc, call>>

KfIdx == 1..NumKF
LmIdx == 1..NumLM
NoKf == 0
NoLm == 0

IsInvalid(k) == ~kfs[k].valid

\* kf->id_.first == 0 && kf->id_.second == map->id_map_
IsAnchor(k) == kfs[k].id[1] = 0 /\ kfs[k].id[2] = map.id_map_

KfWithId(id) == IF \E k \in KfIdx : kfs[k].id = id THEN CHOOSE k \in KfIdx : kfs[k].id = id ELSE NoKf
GetPredecessor(k) == KfWithId(<<kfs[k].id[1] - 1, kfs[k].id[2]>>)
GetSuccessor(k) == KfWithId(<<kfs[k].id[1] + 1, kfs[k].id[2]>>)

\* the 7 doubles of a pose block: quaternion x, y, z, w, then translation
PoseToCeres(T) ==
    LET q == RotToQuat(T.R)
    IN  <<q.x, q.y, q.z, q.w, QInt(T.t[1]), QInt(T.t[2]), QInt(T.t[3])>>

\* Utils::Ceres2Transform
Ceres2Transform(b) ==
    Tf(QuatToRot([x |-> b[1], y |-> b[2], z |-> b[3], w |-> b[4]]),
       <<QToInt(b[5]), QToInt(b[6]), QToInt(b[7])>>)

\* Keyframe::UpdateCeresFromState, on the pose block
UpdateCeresFromState(k) == PoseToCeres(kfs[k].T_ws)

\* the keyframes in the order of the map's vector, as a sequence of indices
ValidKfSeq == SelectSeq(map.keyframes, LAMBDA k : ~IsInvalid(k))
ValidKfs == {k \in KfIdx : ~IsInvalid(k)}

----------------------------------------------------------------------------
(* ceres::Solve on a pose graph of between-factors.                        *)

\* the values a solve may leave in a free pose block, besides its initial value
SolverTf == {Tf(ypr2R(<<90, 0, 0>>), Vec(1, 0, 0))}

\* SixDofBetweenError: zero exactly when T_a^-1 * T_b equals the measurement
BetweenResidualZero(f, bufs) ==
    TfMul(TfInv(Ceres2Transform(bufs[f.a])), Ceres2Transform(bufs[f.b])) = f.meas

FactorKfs(factors) == {factors[i].a : i \in DOMAIN factors} \cup {factors[i].b : i \in DOMAIN factors}

\* the pose blocks the solve may change: those of the problem that are not constant
\* (AddResidualBlock adds a block that was not added explicitly)
FreeBlocks(blocks, constant, factors) == (blocks \cup FactorKfs(factors)) \ constant

\* a free block keeps its value or takes one of the domain
Keep == <<>>

SolveOutcomes(bufs, free, zero, domain) ==
    IF zero THEN {bufs}
    ELSE {[k \in KfIdx |-> IF k \in free /\ f[k] # Keep THEN f[k] ELSE bufs[k]] :
            f \in [free -> domain \cup {Keep}]}

----------------------------------------------------------------------------
(* Edge construction shared by both pose-graph procedures.                 *)

RelPose(i, j) == TfMul(TfInv(kfs[i].T_ws), kfs[j].T_ws)

\* the "Set keyframe edges" loop: candidates (kf, successor) of the valid keyframes
RECURSIVE SuccEdges(_, _, _)
SuccEdges(ks, inserted, acc) ==
    IF ks = <<>> THEN [inserted |-> inserted, edges |-> acc]
    ELSE LET kf == Head(ks)
             succ == GetSuccessor(kf)
         IN  IF succ = NoKf THEN SuccEdges(Tail(ks), inserted, acc)
             ELSE IF <<kf, succ>> \in inserted THEN SuccEdges(Tail(ks), inserted, acc)
             ELSE SuccEdges(Tail(ks), inserted \cup {<<kf, succ>>}, Append(acc, <<kf, succ>>))

\* connections of kf: for j = 1..4, while id_.first - j > 0, the next predecessor
RECURSIVE Connections(_, _, _)
Connections(kf, temp_kf, j) ==
    IF j > WindowSize THEN <<>>
    ELSE IF kfs[kf].id[1] - j > 0
         THEN LET p == GetPredecessor(temp_kf)
              IN  <<p>> \o Connections(kf, p, j + 1)
         ELSE Connections(kf, temp_kf, j + 1)

\* the inner loop over the connections of one keyframe
RECURSIVE ConnEdges(_, _, _, _)
ConnEdges(kf, cs, inserted, acc) ==
    IF cs = <<>> THEN [inserted |-> inserted, edges |-> acc]
    ELSE LET kfc == Head(cs)
         IN  IF <<kf, kfc>> \in inserted THEN ConnEdges(kf, Tail(cs), inserted, acc)
             ELSE ConnEdges(kf, Tail(cs), inserted \cup {<<kf, kfc>>}, Append(acc, <<kf, kfc>>))

\* the "4 neighbours" loop over the valid keyframes
RECURSIVE WindowEdges(_, _, _)
WindowEdges(ks, inserted, acc) ==
    IF ks = <<>> THEN [inserted |-> inserted, edges |-> acc]
    ELSE LET r == ConnEdges(Head(ks), Connections(Head(ks), Head(ks), 1), inserted, acc)
         IN  WindowEdges(Tail(ks), r.inserted, r.edges)

\* pairs of the sequential edges, then of the window edges, in the order they are added
SeqPairs == SuccEdges(ValidKfSeq, {}, <<>>)
WinPairs == WindowEdges(ValidKfSeq, SeqPairs.inserted, <<>>)

----------------------------------------------------------------------------
(* PoseGraphOptimization (6 DoF).                                          *)

\* initial value of a keyframe's pose block: the pre-corrected pose if one is given
T_ws_init(k, corrected_poses) ==
    IF k \in DOMAIN corrected_poses THEN corrected_poses[k] ELSE kfs[k].T_ws

PGOInitBlocks(corrected_poses) ==
    [k \in KfIdx |-> IF IsInvalid(k) THEN kfs[k].ceres_pose
                     ELSE PoseToCeres(T_ws_init(k, corrected_poses))]

PGOConstant == {k \in ValidKfs : IsAnchor(k)}

\* (mutant) one configured weight for every loop edge
PGOLoopWeightFixed(cov) == cfg.wt_lp_r1

\* the weight of a loop edge, by the band of the trace of its translational covariance
PGOLoopWeight(cov) ==
    IF cov < cfg.cov_switch THEN cfg.wt_lp_r1
    ELSE IF cov < cfg.cov_switch2 THEN cfg.wt_lp_r2
    ELSE cfg.wt_lp_r3

PGOLoopFactors ==
    [i \in DOMAIN loops |->
        [kind |-> "loop", a |-> loops[i].kf1, b |-> loops[i].kf2, meas |-> loops[i].T_s1_s2,
         weight |-> PGOLoopWeight(loops[i].cov), loss |-> FALSE]]

PGOKfFactor(kind, pair) ==
    [kind |-> kind, a |-> pair[1], b |-> pair[2], meas |-> RelPose(pair[1], pair[2]),
     weight |-> <<cfg.wt_kf_r, cfg.wt_kf_t>>, loss |-> FALSE]

PGOFactors ==
    PGOLoopFactors
        \o [i \in DOMAIN SeqPairs.edges |-> PGOKfFactor("seq", SeqPairs.edges[i])]
        \o [i \in DOMAIN WinPairs.edges |-> PGOKfFactor("win", WinPairs.edges[i])]

\* (mutant) the pose read after the keyframe has been updated
NonCorrectedPoseAfterUpdate(k, newkfs) == newkfs[k].T_ws

\* the pose captured as T_ws_uncorrected for keyframe k: read before k is updated
NonCorrectedPose(k, newkfs) == kfs[k].T_ws

\* (mutant) the decoded transform stored inverted (T_sw in place of T_ws)
PGOWriteKfsInverted(sol) ==
    [k \in KfIdx |->
        IF IsInvalid(k) THEN [kfs[k] EXCEPT !.ceres_pose = sol[k]]
        ELSE [kfs[k] EXCEPT !.ceres_pose = sol[k], !.T_ws = TfInv(Ceres2Transform(sol[k]))]]

\* write-back of the keyframes: pose from the block, velocity rotated with it
PGOWriteKfs(sol) ==
    [k \in KfIdx |->
        IF IsInvalid(k) THEN [kfs[k] EXCEPT !.ceres_pose = sol[k]]
        ELSE LET T_ws_corrected == Ceres2Transform(sol[k])
             IN  [kfs[k] EXCEPT !.ceres_pose = sol[k],
                                !.T_ws = T_ws_corrected,
                                !.vel = MatVec(MatMul(T_ws_corrected.R, TfInv(kfs[k].T_ws).R), kfs[k].vel)]]

\* write-back of the landmarks in order; exit(-1) at a landmark whose reference
\* keyframe has no entry in non_corrected_poses (it was invalid in the keyframe loop)
RECURSIVE PGOWriteLms(_, _, _)
PGOWriteLms(i, newkfs, acc) ==
    IF i > NumLM THEN [lms |-> acc, aborted |-> FALSE]
    ELSE LET lm == lms[i]
             kf_ref == lm.ref
         IN  IF ~lm.valid \/ kf_ref = NoKf THEN PGOWriteLms(i + 1, newkfs, acc)
             ELSE IF IsInvalid(kf_ref) THEN [lms |-> acc, aborted |-> TRUE]
             ELSE LET pos_s == TfApply(TfInv(NonCorrectedPose(kf_ref, newkfs)), lm.pos)
                      pos_w_corrected == TfApply(newkfs[kf_ref].T_ws, pos_s)
                  IN  PGOWriteLms(i + 1, newkfs, [acc EXCEPT ![i].pos = pos_w_corrected])

\* (mutant) sequential and window edges measured between the initial values of the
\* pose blocks, which hold the pre-corrected poses
PGOFactorsAtInit(corrected_poses) ==
    [n \in DOMAIN PGOFactors |->
        LET f == PGOFactors[n]
        IN  IF f.kind = "loop" THEN f
            ELSE [f EXCEPT !.meas = TfMul(TfInv(T_ws_init(f.a, corrected_poses)),
                                          T_ws_init(f.b, corrected_poses))]]

PoseGraphOptimizationMeasuredAtInit(corrected_poses) ==
    /\ pc = "idle"
    /\ \E bufs \in {PGOInitBlocks(corrected_poses)}, factors \in {PGOFactorsAtInit(corrected_poses)} :
       \E zero \in {\A i \in DOMAIN factors : BetweenResidualZero(factors[i], bufs)} :
       \E sol \in SolveOutcomes(bufs, FreeBlocks(ValidKfs, PGOConstant, factors), zero,
                                {PoseToCeres(T) : T \in SolverTf}) :
       \E newkfs \in {PGOWriteKfs(sol)} :
       \E res \in {PGOWriteLms(1, newkfs, lms)} :
          /\ kfs' = newkfs
          /\ lms' = res.lms
          /\ pc' = IF res.aborted THEN "aborted" ELSE "done"
          /\ call' = [name |-> "PGO", corrected_poses |-> corrected_poses,
                      pre_kfs |-> kfs, pre_lms |-> lms,
                      blocks |-> ValidKfs \cup FactorKfs(factors),
                      constant |-> PGOConstant, factors |-> factors,
                      connections |-> [k \in ValidKfs |-> Connections(k, k, 1)],
                      init |-> bufs, zero |-> zero, sol |-> sol]
    /\ UNCHANGED <<map, loops, cfg>>

\* (a value bound by \E over a singleton is computed once)
PoseGraphOptimization(corrected_poses) ==
    /\ pc = "idle"
    /\ \E bufs \in {PGOInitBlocks(corrected_poses)}, factors \in {PGOFactors} :
       \E zero \in {\A i \in DOMAIN factors : BetweenResidualZero(factors[i], bufs)} :
       \E sol \in SolveOutcomes(bufs, FreeBlocks(ValidKfs, PGOConstant, factors), zero,
                                {PoseToCeres(T) : T \in SolverTf}) :
       \E newkfs \in {PGOWriteKfs(sol)} :
       \E res \in {PGOWriteLms(1, newkfs, lms)} :
          /\ kfs' = newkfs
          /\ lms' = res.lms
          /\ pc' = IF res.aborted THEN "aborted" ELSE "done"
          /\ call' = [name |-> "PGO", corrected_poses |-> corrected_poses,
                      pre_kfs |-> kfs, pre_lms |-> lms,
                      blocks |-> ValidKfs \cup FactorKfs(factors),
                      constant |-> PGOConstant, factors |-> factors,
                      connections |-> [k \in ValidKfs |-> Connections(k, k, 1)],
                      init |-> bufs, zero |-> zero, sol |-> sol]
    /\ UNCHANGED <<map, loops, cfg>>

----------------------------------------------------------------------------
(* PoseGraphOptimization4DoF.                                              *)

\* the values a solve may leave in a free yaw block and translation block
SolverYaw == {QInt(180)}
SolverT == {<<QInt(1), QInt(0), QInt(0)>>}

\* a keyframe's block after the keyframe loop: [0] keeps the quaternion x of
\* UpdateCeresFromState, [1..3] hold yaw, pitch, roll in degrees, [4..6] the translation
PGO4InitBlocks ==
    [k \in KfIdx |->
        IF IsInvalid(k) THEN kfs[k].ceres_pose
        ELSE LET T == kfs[k].T_ws
                 ypr == R2ypr(T.R)
             IN  <<UpdateCeresFromState(k)[1], QInt(ypr[1]), QInt(ypr[2]), QInt(ypr[3]),
                   QInt(T.t[1]), QInt(T.t[2]), QInt(T.t[3])>>]

PGO4Constant ==
    {k \in ValidKfs :
        \/ IsAnchor(k)
        \/ kfs[k].is_gba_optimized /\ cfg.pgo_fix_kfs_after_gba
        \/ kfs[k].is_loaded /\ cfg.pgo_fix_poses_loaded_maps}

\* q_ws_map[id]: the quaternion stored in the keyframe loop; an invalid keyframe has
\* no entry and operator[] yields a quaternion that was never initialised
EulerConnected(k) ==
    IF IsInvalid(k) THEN [defined |-> FALSE, pitch |-> 0, roll |-> 0]
    ELSE LET ypr == R2ypr(QuatToRot(RotToQuat(kfs[k].T_ws.R)))
         IN  [defined |-> TRUE, pitch |-> ypr[2], roll |-> ypr[3]]

\* (mutant) the weight chosen by the band of the covariance trace
PGO4LoopWeightBanded(cov) ==
    IF cov < cfg.cov_switch THEN cfg.wt_lp_r1
    ELSE IF cov < cfg.cov_switch2 THEN cfg.wt_lp_r2
    ELSE cfg.wt_lp_r3

\* double weight = 1: cov is computed and not used
PGO4LoopWeight(cov) == 1

PGO4LoopFactors ==
    [i \in DOMAIN loops |->
        [kind |-> "loop", a |-> loops[i].kf1, b |-> loops[i].kf2,
         t |-> loops[i].T_s1_s2.t, relative_yaw |-> QInt(loops[i].relative_yaw),
         euler |-> EulerConnected(loops[i].kf1), weight |-> PGO4LoopWeight(loops[i].cov),
         loss |-> TRUE]]

PGO4KfFactor(kind, pair, bufs) ==
    [kind |-> kind, a |-> pair[1], b |-> pair[2],
     t |-> RelPose(pair[1], pair[2]).t,
     relative_yaw |-> QSub(bufs[pair[2]][2], bufs[pair[1]][2]),
     euler |-> EulerConnected(pair[1]), weight |-> 1, loss |-> FALSE]

PGO4Factors(bufs) ==
    PGO4LoopFactors
        \o [i \in DOMAIN SeqPairs.edges |-> PGO4KfFactor("seq", SeqPairs.edges[i], bufs)]
        \o [i \in DOMAIN WinPairs.edges |-> PGO4KfFactor("win", WinPairs.edges[i], bufs)]

IsAngle(p) == QIsInt(p) /\ QToInt(p) % 90 = 0
BlockT(b) == <<QToInt(b[5]), QToInt(b[6]), QToInt(b[7])>>

\* FourDOFError: R(yaw_i, pitch_i, roll_i)^T (t_j - t_i) - t and the normalised
\* yaw_j - yaw_i - relative_yaw are all zero
FourDOFResidualZero(f, bufs) ==
    LET yaw_i == bufs[f.a][2]
        yaw_j == bufs[f.b][2]
        d == QSub(QSub(yaw_j, yaw_i), f.relative_yaw)
    IN  /\ f.euler.defined
        /\ IsAngle(yaw_i)
        /\ QIsInt(d) /\ QToInt(d) % 360 = 0
        /\ MatVec(MatT(ypr2R(<<QToInt(yaw_i), f.euler.pitch, f.euler.roll>>)),
                  VSub(BlockT(bufs[f.b]), BlockT(bufs[f.a]))) = f.t

\* only the yaw block [1] and the translation block [4..6] are parameter blocks
Solve4Outcomes(bufs, free, zero) ==
    IF zero THEN {bufs}
    ELSE {[k \in KfIdx |->
             IF k \notin free THEN bufs[k]
             ELSE LET y == IF f[k][1] = Keep THEN bufs[k][2] ELSE f[k][1]
                      t == IF f[k][2] = Keep THEN <<bufs[k][5], bufs[k][6], bufs[k][7]>> ELSE f[k][2]
                  IN  [bufs[k] EXCEPT ![2] = y, ![5] = t[1], ![6] = t[2], ![7] = t[3]]] :
            f \in [free -> (SolverYaw \cup {Keep}) \X (SolverT \cup {Keep})]}

\* (mutant) pitch and roll passed to eulerAnglesToQuat in the wrong order
RebuildQuatSwapped(b) ==
    LET q == eulerAnglesToQuat(QToInt(b[2]), QToInt(b[4]), QToInt(b[3]))
    IN  <<q.x, q.y, q.z, q.w, b[5], b[6], b[7]>>

\* the block after the quaternion is rebuilt from yaw and the stored pitch and roll
RebuildQuat(b) ==
    LET q == eulerAnglesToQuat(QToInt(b[2]), QToInt(b[3]), QToInt(b[4]))
    IN  <<q.x, q.y, q.z, q.w, b[5], b[6], b[7]>>

PGO4WriteKfs(sol) ==
    [k \in KfIdx |->
        IF IsInvalid(k) THEN [kfs[k] EXCEPT !.ceres_pose = sol[k]]
        ELSE LET b == RebuildQuat(sol[k])
                 T_ws_corrected == Ceres2Transform(b)
             IN  [kfs[k] EXCEPT !.ceres_pose = b,
                                !.T_ws = T_ws_corrected,
                                !.vel = MatVec(MatMul(T_ws_corrected.R, TfInv(kfs[k].T_ws).R), kfs[k].vel)]]

PoseGraphOptimization4DoF(corrected_poses) ==
    /\ pc = "idle"
    /\ \E bufs \in {PGO4InitBlocks} :
       \E factors \in {PGO4Factors(bufs)} :
       \E zero \in {\A i \in DOMAIN factors : FourDOFResidualZero(factors[i], bufs)} :
       \E sol \in Solve4Outcomes(bufs, FreeBlocks(ValidKfs, PGO4Constant, factors), zero) :
       \E newkfs \in {PGO4WriteKfs(sol)} :
       \E res \in {PGOWriteLms(1, newkfs, lms)} :
          /\ kfs' = newkfs
          /\ lms' = res.lms
          /\ pc' = IF res.aborted THEN "aborted" ELSE "done"
          /\ call' = [name |-> "PGO4",
                      pre_kfs |-> kfs, pre_lms |-> lms,
                      blocks |-> ValidKfs \cup FactorKfs(factors),
                      constant |-> PGO4Constant, factors |-> factors,
                      connections |-> [k \in ValidKfs |-> Connections(k, k, 1)],
                      init |-> bufs, zero |-> zero, sol |-> sol]
    /\ UNCHANGED <<map, loops, cfg>>

----------------------------------------------------------------------------
(* GlobalBundleAdjustment.                                                 *)

\* the iteration cap of the outlier pass
OutlierPassIterations == 5

\* at most this many residuals of one evaluation exceed the threshold
MaxOutliers == 1

\* the values a bundle-adjustment solve may leave in a free block
SolverPos == {Vec(7, 7, 7)}
SolverVel == {Vec(0, 0, 1)}

\* the residual norms an evaluation may report: at the threshold and above it
ResidualNorms == {2, 3}

KfSeqOf(S) == SelectSeq([k \in KfIdx |-> k], LAMBDA k : k \in S)

\* the problem before anything is added: the buffers hold what the entities hold
EmptyProblem ==
    [pose |-> [k \in KfIdx |-> kfs[k].ceres_pose],
     vb |-> [k \in KfIdx |-> kfs[k].ceres_velocity_and_bias],
     pos |-> [i \in LmIdx |-> lms[i].ceres_pos],
     pose_blocks |-> {}, vb_blocks |-> {}, pos_blocks |-> {}, constant |-> {},
     imu_factors |-> <<>>, residual_ids |-> <<>>, loop_edges |-> <<>>,
     not_included_lms |-> {}, aborted |-> FALSE]

\* (mutant) a keyframe without a valid predecessor only loses its IMU factor
GBANoPredecessorIgnored(kf) == FALSE

\* if(kf->id_.first != 0) exit(-1): a keyframe without a valid predecessor is fatal
\* unless it is the first of its agent
GBANoPredecessorFatal(kf) == kfs[kf].id[1] # 0

\* the "Add Keyframes" loop of either pass (main: the second round)
RECURSIVE GBAAddKeyframes(_, _, _, _)
GBAAddKeyframes(ks, p, main, visual_only) ==
    IF ks = <<>> THEN p
    ELSE LET kf == Head(ks)
             pred == GetPredecessor(kf)
             fixed == IsAnchor(kf) \/ (main /\ kfs[kf].is_loaded /\ cfg.gba_fix_poses_loaded_maps)
             q == [p EXCEPT !.pose[kf] = UpdateCeresFromState(kf),
                            !.vb[kf] = kfs[kf].vel,
                            !.pose_blocks = @ \cup {kf},
                            !.vb_blocks = IF visual_only THEN @ ELSE @ \cup {kf},
                            !.constant = IF fixed THEN @ \cup {kf} ELSE @]
         IN  IF IsInvalid(kf) THEN GBAAddKeyframes(Tail(ks), p, main, visual_only)
             ELSE IF visual_only THEN GBAAddKeyframes(Tail(ks), q, main, visual_only)
             ELSE IF pred = NoKf \/ IsInvalid(pred)
                  THEN IF GBANoPredecessorFatal(kf) THEN [q EXCEPT !.aborted = TRUE]
                       ELSE GBAAddKeyframes(Tail(ks), q, main, visual_only)
             ELSE IF main /\ kfs[kf].num_imu = 0
                  THEN GBAAddKeyframes(Tail(ks), q, main, visual_only)
             ELSE IF main /\ (pred \notin q.pose_blocks \/ pred \notin q.vb_blocks)
                  THEN [q EXCEPT !.aborted = TRUE]
             ELSE GBAAddKeyframes(Tail(ks),
                                  [q EXCEPT !.imu_factors = Append(@, <<pred, kf>>),
                                            !.pose_blocks = @ \cup {pred},
                                            !.vb_blocks = @ \cup {pred}],
                                  main, visual_only)

\* (mutant) every observation counted, whether or not its keyframe is valid
GBANumObservations(i) == Cardinality(lms[i].observations)

\* num_edges: the observations of landmark i by valid keyframes
GBANumEdges(i) == Cardinality({k \in lms[i].observations : ~IsInvalid(k)})

\* the "Add Landmarks" loop of either pass
RECURSIVE GBAAddLandmarks(_, _)
GBAAddLandmarks(i, p) ==
    IF i > NumLM THEN p
    ELSE IF ~lms[i].valid THEN GBAAddLandmarks(i + 1, p)
    ELSE IF Cardinality(lms[i].observations) < th_min_observations
              \/ GBANumEdges(i) < th_min_observations
         THEN GBAAddLandmarks(i + 1, [p EXCEPT !.not_included_lms = @ \cup {i}])
    ELSE LET kfx == KfSeqOf({k \in lms[i].observations : ~IsInvalid(k)})
         IN  GBAAddLandmarks(i + 1,
                 [p EXCEPT !.pos[i] = lms[i].pos,
                           !.pos_blocks = @ \cup {i},
                           !.residual_ids = @ \o [n \in DOMAIN kfx |-> <<kfx[n], i>>]])

\* the "Set Loop Edges" block: unguarded in the outlier pass, guarded in the main pass
GBAAddLoops(p, main) ==
    LET present(l) == l.kf1 \in p.pose_blocks /\ l.kf2 \in p.pose_blocks
        used == IF ~main THEN loops
                ELSE IF cfg.gba_use_map_loop_constraints THEN SelectSeq(loops, present)
                ELSE <<>>
        edges == [n \in DOMAIN used |->
                    [kind |-> "loop", a |-> used[n].kf1, b |-> used[n].kf2,
                     meas |-> used[n].T_s1_s2, loss |-> main]]
    IN  [p EXCEPT !.loop_edges = edges, !.pose_blocks = @ \cup FactorKfs(edges)]

GBABuild(main, visual_only) ==
    LET p == GBAAddKeyframes(map.keyframes, EmptyProblem, main, visual_only)
    IN  IF p.aborted THEN p ELSE GBAAddLoops(GBAAddLandmarks(1, p), main)

\* ceres::Solve on a bundle-adjustment problem: with no iteration allowed nothing
\* moves; otherwise nothing moves, or every block that is not constant moves
GBASolveOutcomes(p, max_num_iterations) ==
    IF max_num_iterations = 0 THEN {p}
    ELSE {p} \cup
         {[p EXCEPT !.pose = [k \in KfIdx |->
                                IF k \in p.pose_blocks \ p.constant THEN PoseToCeres(T) ELSE p.pose[k]],
                    !.vb = [k \in KfIdx |-> IF k \in p.vb_blocks THEN v ELSE p.vb[k]],
                    !.pos = [i \in LmIdx |-> IF i \in p.pos_blocks THEN x ELSE p.pos[i]]] :
            T \in SolverTf, v \in SolverVel, x \in SolverPos}

\* (mutant) the threshold of the two-view alignment
AlignOutlierThreshold == cfg.th_outlier_align

\* const precision_t threshold = covins_params::opt::th_gba_outlier_global
GBAOutlierThreshold == cfg.th_gba_outlier_global

\* problem.Evaluate on residual_ids: one norm per reprojection residual
EvaluateOutcomes(ids) ==
    {n \in [DOMAIN ids -> ResidualNorms] :
        Cardinality({i \in DOMAIN ids : n[i] > cfg.th_gba_outlier_global}) <= MaxOutliers}

\* the observations the "Remove Outliers" loop erases, as pairs <<keyframe, landmark>>
GBAOutliers(ids, norms) == {ids[i] : i \in {j \in DOMAIN ids : norms[j] > GBAOutlierThreshold}}

\* the norms an evaluation of the main problem's residuals at its solution reports:
\* a residual is a function of its blocks, so where the pose and position blocks are
\* those the outlier pass evaluated, the norm is the one it reported
ReEvaluateOutcomes(s) ==
    {n \in EvaluateOutcomes(s.residual_ids) :
        call.outlier.ran =>
            \A i \in DOMAIN s.residual_ids, j \in DOMAIN call.outlier.problem.residual_ids :
                LET o == s.residual_ids[i]
                    e == call.outlier.problem
                IN  (o = e.residual_ids[j] /\ s.pose[o[1]] = e.pose[o[1]] /\ s.pos[o[2]] = e.pos[o[2]])
                        => n[i] = call.outlier.norms[j]}

\* (mutant) the pose the first round solved for is stored as the keyframe's pose
GBAStoreKfState(p) ==
    [k \in KfIdx |-> [kfs[k] EXCEPT !.ceres_pose = p.pose[k], !.ceres_velocity_and_bias = p.vb[k],
                                   !.T_ws = Ceres2Transform(p.pose[k])]]

\* the buffers as a pass leaves them
GBAStoreKfBuffers(p) ==
    [k \in KfIdx |-> [kfs[k] EXCEPT !.ceres_pose = p.pose[k], !.ceres_velocity_and_bias = p.vb[k]]]
GBAStoreLmBuffers(p) ==
    [i \in LmIdx |-> [lms[i] EXCEPT !.ceres_pos = p.pos[i]]]

\* "Recover optimized data", keyframes
GBAWriteKfs(s, visual_only) ==
    [k \in KfIdx |->
        LET kf == GBAStoreKfBuffers(s)[k]
        IN  IF IsInvalid(k) THEN kf
            ELSE [kf EXCEPT !.T_ws = Ceres2Transform(s.pose[k]),
                            !.pose_optimized = TRUE,
                            !.vel = IF visual_only THEN @ ELSE s.vb[k],
                            !.vel_bias_optimized = IF visual_only THEN @ ELSE TRUE,
                            !.is_gba_optimized = TRUE]]

\* "Recover optimized data", landmarks
GBAWriteLms(s) ==
    [i \in LmIdx |->
        LET lm == GBAStoreLmBuffers(s)[i]
        IN  IF i \in s.not_included_lms \/ ~lms[i].valid THEN lm
            ELSE [lm EXCEPT !.pos = s.pos[i], !.optimized = TRUE, !.is_gba_optimized = TRUE]]

\* (mutant) the observation is erased from the landmark only
GBAEraseNothing(k, bad) == {}

\* kfi->EraseLandmark(kp_id): the landmarks keyframe k loses in the "Remove Outliers" loop
GBAEraseLandmark(k, bad) == {i \in LmIdx : <<k, i>> \in bad}

\* (mutant) a landmark with an outlier loses all its observations
GBAEraseAllObservations(i, bad) == IF \E o \in bad : o[2] = i THEN KfIdx ELSE {}

\* lmi->EraseObservation(kfi): the observations landmark i loses in the "Remove Outliers" loop
GBAEraseObservation(i, bad) == {k \in KfIdx : <<k, i>> \in bad}

\* GlobalBundleAdjustment up to the end of the first round
GBAOutlierPass(interations_limit, time_limit, visual_only, outlier_removal) ==
    /\ pc = "idle"
    /\ \E c \in {[name |-> "GBA", interations_limit |-> interations_limit,
                  time_limit |-> time_limit, visual_only |-> visual_only,
                  outlier_removal |-> outlier_removal, pre_kfs |-> kfs, pre_lms |-> lms,
                  outlier |-> [ran |-> FALSE], main_lms |-> lms, main |-> [ran |-> FALSE]]} :
          IF ~outlier_removal
          THEN /\ pc' = "gba_main"
               /\ call' = c
               /\ UNCHANGED <<kfs, lms>>
          ELSE \E p \in {GBABuild(FALSE, visual_only)} :
                 IF p.aborted
                 THEN /\ pc' = "aborted"
                      /\ call' = c
                      /\ kfs' = GBAStoreKfBuffers(p)
                      /\ UNCHANGED lms
                 ELSE \E s \in GBASolveOutcomes(p, OutlierPassIterations) :
                      \E norms \in EvaluateOutcomes(p.residual_ids) :
                      \E bad \in {GBAOutliers(p.residual_ids, norms)} :
                        /\ pc' = "gba_main"
                        /\ call' = [c EXCEPT !.outlier = [ran |-> TRUE, problem |-> s, norms |-> norms]]
                        /\ kfs' = [k \in KfIdx |->
                                     [GBAStoreKfBuffers(s)[k] EXCEPT
                                         !.landmarks = @ \ GBAEraseLandmark(k, bad)]]
                        /\ lms' = [i \in LmIdx |->
                                     [GBAStoreLmBuffers(s)[i] EXCEPT
                                         !.observations = @ \ GBAEraseObservation(i, bad)]]
    /\ UNCHANGED <<map, loops, cfg>>

\* (mutant) the call returns without the cleanup
GBACleanSkipped(m) == m

\* map->Clean(): the map counts the invocations of its cleanup
GBAClean(m) == [m EXCEPT !.clean_calls = @ + 1]

\* max_solver_time_in_seconds of a default-constructed ceres::Solver::Options
DefaultMaxSolverTime == 1000000

\* the solver options of the second round: only the iteration cap is taken from the
\* arguments, the time limit stays at the default
GBASolverOptions(interations_limit, time_limit) ==
    [max_num_iterations |-> interations_limit,
     max_solver_time_in_seconds |-> DefaultMaxSolverTime]

\* GlobalBundleAdjustment from the second round to its return
GBAMainPass ==
    /\ pc = "gba_main"
    /\ \E p \in {GBABuild(TRUE, call.visual_only)},
          solver_options \in {GBASolverOptions(call.interations_limit, call.time_limit)} :
          IF p.aborted
          THEN /\ pc' = "aborted"
               /\ call' = [call EXCEPT !.main_lms = lms]
               /\ kfs' = GBAStoreKfBuffers(p)
               /\ UNCHANGED <<lms, map>>
          ELSE \E s \in GBASolveOutcomes(p, solver_options.max_num_iterations) :
               \E post \in ReEvaluateOutcomes(s) :
               \E written \in {[kfs |-> GBAWriteKfs(s, call.visual_only), lms |-> GBAWriteLms(s)]} :
                 /\ pc' = "done"
                 /\ call' = [call EXCEPT !.main_lms = lms,
                                         !.main = [ran |-> TRUE, init |-> p, problem |-> s, post |-> post,
                                                   solver_options |-> solver_options,
                                                   clean_at |-> written]]
                 /\ kfs' = written.kfs
                 /\ lms' = written.lms
                 /\ map' = GBAClean(map)
    /\ UNCHANGED <<loops, cfg>>

----------------------------------------------------------------------------
(* OptimizeRelativePose.                                                   *)

\* the longest match vector of the model
MaxMatches == 15

\* the entries of a match vector that are not plain eligible correspondences, and the
\* residuals whose norm may exceed a threshold, are among the first of the vector
VaryingEntries == 2
OutlierWindow == 2

\* fewer correspondences than this after classification: the call reports failure
MinInliers == 12

\* entry i of the call: the landmark in slot i of kf1 (mpa), matches1[i] (mpb), and
\* the feature index of matches1[i] in kf2 (iB)
EligibleEntry == [mpa |-> "valid", mpb |-> "valid", iB |-> 0]
EntryKinds ==
    {EligibleEntry,
     [mpa |-> "valid", mpb |-> "null", iB |-> 0],
     [mpa |-> "valid", mpb |-> "invalid", iB |-> 0],
     [mpa |-> "valid", mpb |-> "valid", iB |-> -1],
     [mpa |-> "null", mpb |-> "valid", iB |-> 0]}

MatchLengths == {MaxMatches - 3, MaxMatches - 1, MaxMatches}

MatchInputs ==
    {[i \in 1..n |-> IF i <= VaryingEntries THEN head[i] ELSE EligibleEntry] :
        n \in MatchLengths, head \in [1..VaryingEntries -> EntryKinds]}

\* (mutant) every entry gets its residual blocks, a null one too
EligibleAlways(e) == TRUE

\* the test of the loop body: both landmarks present and valid, feature index found
Eligible(e) ==
    /\ e.mpb # "null"
    /\ e.mpa # "null"
    /\ e.mpa # "invalid" /\ e.mpb # "invalid" /\ e.iB >= 0

\* vIndex: the positions of the entries that got a pair of residual blocks
RECURSIVE VIndexFrom(_, _)
VIndexFrom(entries, i) ==
    IF i > Len(entries) THEN <<>>
    ELSE IF Eligible(entries[i]) THEN <<i>> \o VIndexFrom(entries, i + 1)
    ELSE VIndexFrom(entries, i + 1)

\* the norms the two evaluations may report for residual pair i
ORPNorms == {2, 4}
ORPEvaluateOutcomes(numCorrespondences) ==
    LET w == IF numCorrespondences < OutlierWindow THEN numCorrespondences ELSE OutlierWindow
    IN  {[i \in 1..numCorrespondences |-> IF i <= w THEN h[i] ELSE [A |-> 2, B |-> 2]] :
            h \in [1..w -> [A : ORPNorms, B : ORPNorms]]}

\* the threshold of the classification
ORPThreshold(th2) == cfg.th_outlier_align

\* the residual pairs the "Check for outliers" loop removes
ORPBad(norms, th2) ==
    {i \in DOMAIN norms : norms[i].A > ORPThreshold(th2) \/ norms[i].B > ORPThreshold(th2)}

\* (mutant) the count of the correspondences before the classification
ORPCorrespondences(numCorrespondences, numBad) == numCorrespondences

\* numCorrespondences - numBad
ORPRemaining(numCorrespondences, numBad) == numCorrespondences - numBad

\* ceres::Solve on the single pose block: without a residual nothing moves
ORPSolveOutcomes(b, residuals) ==
    IF residuals = 0 THEN {b} ELSE {b} \cup {PoseToCeres(T) : T \in SolverTf}

\* (mutant) the transform is recovered from the block before the count is tested
ORPRecoverAlways(T12, ceresAB, remaining) == Ceres2Transform(ceresAB)

\* the caller's T12 at the return: assigned from the block after the second solve only
ORPRecover(T12, ceresAB, remaining) ==
    IF remaining < MinInliers THEN T12 ELSE Ceres2Transform(ceresAB)

OptimizeRelativePose(kf1, kf2, entries, T12, th2) ==
    /\ pc = "idle"
    /\ \E vIndex \in {VIndexFrom(entries, 1)} :
       \E numCorrespondences \in {Len(vIndex)} :
       \E s1 \in ORPSolveOutcomes(PoseToCeres(T12), numCorrespondences) :
       \E norms \in ORPEvaluateOutcomes(numCorrespondences) :
       \E bad \in {ORPBad(norms, th2)} :
       \E numBad \in {Cardinality(bad)} :
       \E s2 \in IF ORPRemaining(numCorrespondences, numBad) < MinInliers
                 THEN {s1} ELSE ORPSolveOutcomes(s1, numCorrespondences - numBad) :
          call' = [name |-> "ORP", kf1 |-> kf1, kf2 |-> kf2, entries |-> entries,
                   T12_in |-> T12, th2 |-> th2, vIndex |-> vIndex, norms |-> norms,
                   bad |-> bad, numCorrespondences |-> numCorrespondences, numBad |-> numBad,
                   matches1 |-> [i \in DOMAIN entries |->
                                   IF i \in bad THEN "null" ELSE entries[i].mpb],
                   ceresAB |-> s2,
                   T12 |-> ORPRecover(T12, s2, ORPRemaining(numCorrespondences, numBad)),
                   ret |-> IF ORPRemaining(numCorrespondences, numBad) < MinInliers
                           THEN 0 ELSE ORPRemaining(numCorrespondences, numBad)]
    /\ pc' = "done"
    /\ UNCHANGED <<map, kfs, lms, loops, cfg>>

----------------------------------------------------------------------------
(* LocalBundleAdjustment.                                                  *)

\* the values the covariance estimation may produce (each stands for a 6x6 matrix)
CovValues == {1, 4}

LocalLM(pos, obs) == [pos_l_ |-> pos, ceres_pos_ |-> Vec(0, 0, 0), observations_ |-> obs]

SeqRange(q) == {q[i] : i \in DOMAIN q}

\* the value written to ceres_pose_local_ of a keyframe of the two windows: identity for
\* the query keyframe, the pose relative to it for its neighbours, and for the
\* candidates T_s1s2 * T_sw(CKF) * T_ws(kf); the candidate loop runs last
LBALocalPose(k, QKFs, CKFs, T_s1s2) ==
    IF k \in SeqRange(CKFs)
    THEN TfMul(T_s1s2, TfMul(TfInv(kfs[CKFs[1]].T_ws), kfs[k].T_ws))
    ELSE IF k = QKFs[1] THEN TfI
    ELSE TfMul(TfInv(kfs[QKFs[1]].T_ws), kfs[k].T_ws)

\* the first landmark with an observation by a valid keyframe outside both windows
\* (no entry in intrinsics_map: exit(-1)), or NoLm
LBAFirstMissing(local_lms, window) ==
    LET missing == {i \in DOMAIN local_lms :
                      \E k \in local_lms[i].observations_ : ~IsInvalid(k) /\ k \notin window}
    IN  IF missing = {} THEN NoLm ELSE CHOOSE i \in missing : \A j \in missing : i <= j

\* ceres::Solve: nothing moves, or every block that is not constant moves
LBASolveOutcomes(local, pos, free) ==
    {[local |-> local, pos |-> pos]} \cup
    {[local |-> [k \in KfIdx |-> IF k \in free THEN PoseToCeres(T) ELSE local[k]],
      pos |-> [i \in DOMAIN pos |-> x]] : T \in SolverTf, x \in SolverPos}

\* (mutant) the local pose block is also stored as the keyframe's world pose
LBAStoreKeyframePose(k, local_k) ==
    [kfs[k] EXCEPT !.ceres_pose = UpdateCeresFromState(k),
                   !.ceres_velocity_and_bias = kfs[k].vel,
                   !.ceres_pose_local_ = local_k,
                   !.T_ws = Ceres2Transform(local_k)]

\* a keyframe of the two windows after the call: its three buffers are written
LBAStoreKeyframe(k, local_k) ==
    [kfs[k] EXCEPT !.ceres_pose = UpdateCeresFromState(k),
                   !.ceres_velocity_and_bias = kfs[k].vel,
                   !.ceres_pose_local_ = local_k]

LocalBundleAdjustment(local_lms, QKFs, CKFs, T_s1s2, cov_BA) ==
    /\ pc = "idle"
    /\ \E window \in {SeqRange(QKFs) \cup SeqRange(CKFs)} :
       \E local \in {[k \in KfIdx |->
                        IF k \in window THEN PoseToCeres(LBALocalPose(k, QKFs, CKFs, T_s1s2))
                        ELSE kfs[k].ceres_pose_local_]} :
       \E missing \in {LBAFirstMissing(local_lms, window)} :
       \E c \in {[name |-> "LBA", QKFs |-> QKFs, CKFs |-> CKFs, lms_in |-> local_lms,
                  T_s1s2_in |-> T_s1s2, cov_BA_in |-> cov_BA, pre_kfs |-> kfs, pre_lms |-> lms]} :
          IF missing # NoLm
          THEN /\ pc' = "aborted"
               /\ kfs' = [k \in KfIdx |->
                            IF k \in window
                            THEN LBAStoreKeyframe(k, local[k])
                            ELSE kfs[k]]
               /\ call' = c
          ELSE \E s \in LBASolveOutcomes(local, [i \in DOMAIN local_lms |-> local_lms[i].pos_l_],
                                         window \ {QKFs[1]}) :
               \E cov \in CovValues :
                 /\ pc' = "done"
                 /\ kfs' = [k \in KfIdx |->
                              IF k \in window
                              THEN LBAStoreKeyframe(k, s.local[k])
                              ELSE kfs[k]]
                 /\ call' = [name |-> "LBA", QKFs |-> QKFs, CKFs |-> CKFs, lms_in |-> local_lms,
                             T_s1s2_in |-> T_s1s2, cov_BA_in |-> cov_BA,
                             pre_kfs |-> kfs, pre_lms |-> lms,
                             lms |-> [i \in DOMAIN local_lms |->
                                        [local_lms[i] EXCEPT !.ceres_pos_ = s.pos[i]]],
                             T_s1s2_optim |-> Ceres2Transform(s.local[CKFs[1]]),
                             ret |-> [void |-> TRUE],
                             caller |-> [T_s1s2 |-> T_s1s2, cov_BA |-> cov]]
    /\ UNCHANGED <<map, lms, loops, cfg>>

----------------------------------------------------------------------------
(* Maps the procedures are called on.                                      *)

\* pre-corrected poses a caller passes
CorrectedTf == {Tf(MatI, Vec(0, 0, 0)), Tf(ypr2R(<<90, 0, 0>>), Vec(0, 0, 1))}

Config ==
    [cov_switch |-> 2, cov_switch2 |-> 5, wt_lp_r1 |-> 50, wt_lp_r2 |-> 10, wt_lp_r3 |-> 1,
     wt_kf_r |-> 100, wt_kf_t |-> 100,
     pgo_fix_kfs_after_gba |-> FALSE, pgo_fix_poses_loaded_maps |-> FALSE,
     gba_fix_poses_loaded_maps |-> FALSE, gba_use_map_loop_constraints |-> TRUE,
     th_gba_outlier_global |-> 2, th_outlier_align |-> 3]

\* keyframe k of a single-agent map: agent 0, sequence index k - 1
KfId(k) == <<k - 1, 0>>

Keyframe(k, valid, T, stale) ==
    [id |-> KfId(k), valid |-> valid, T_ws |-> T, vel |-> Vec(1, 0, 0),
     is_loaded |-> FALSE, is_gba_optimized |-> FALSE, pose_optimized |-> FALSE,
     vel_bias_optimized |-> FALSE, num_imu |-> 1, landmarks |-> {},
     ceres_pose |-> PoseToCeres(stale), ceres_velocity_and_bias |-> Vec(0, 0, 0),
     ceres_pose_local_ |-> PoseToCeres(TfI)]

Landmark(valid, pos, ref) ==
    [valid |-> valid, pos |-> pos, ref |-> ref, observations |-> {},
     optimized |-> FALSE, is_gba_optimized |-> FALSE, ceres_pos |-> Vec(0, 0, 0)]

LoopConstraint(k1, k2, T, cov) ==
    [kf1 |-> k1, kf2 |-> k2, T_s1_s2 |-> T, cov |-> cov, relative_yaw |-> R2ypr(T.R)[1]]

\* the trajectories of the model: keyframe k of trajectory s has the pose Trajectory(s, k)
InitTfSeq ==
    <<Tf(MatI, Vec(0, 0, 0)),
      Tf(ypr2R(<<90, 0, 90>>), Vec(1, 0, 0)),
      Tf(ypr2R(<<0, 90, 0>>), Vec(0, 1, 0))>>
Trajectory(s, k) == InitTfSeq[((s + k) % Len(InitTfSeq)) + 1]

\* validity of the keyframes: all valid, or exactly one invalid
ValidityChoices == {[k \in KfIdx |-> k # j] : j \in KfIdx \cup {NoKf}}

\* reference keyframes of the landmarks: landmark i refers to keyframe r + i - 1,
\* and past the last keyframe to none
RefChoices == {[i \in LmIdx |-> IF r + i - 1 \in KfIdx THEN r + i - 1 ELSE NoKf] : r \in KfIdx}

InitPGO ==
    /\ map = [id_map_ |-> 0, keyframes |-> [i \in KfIdx |-> i], clean_calls |-> 0]
    /\ \E valid \in ValidityChoices, s \in DOMAIN InitTfSeq, stale \in BOOLEAN :
          kfs = [k \in KfIdx |->
                   Keyframe(k, valid[k], Trajectory(s, k),
                            IF stale /\ ~valid[k] THEN Trajectory(s, k + 1) ELSE Trajectory(s, k))]
    /\ \E ref \in RefChoices, v \in BOOLEAN :
          lms = [i \in LmIdx |-> Landmark(v \/ i < NumLM, Vec(i, 1, 2), ref[i])]
    /\ loops \in {<<>>, <<LoopConstraint(1, NumKF, Tf(MatI, Vec(1, 0, 0)), 1)>>}
    /\ cfg = Config
    /\ pc = "idle"
    /\ call = [name |-> "none"]

CorrectedInputs ==
    {<<>>} \cup {[k \in {j} |-> T] : j \in KfIdx, T \in CorrectedTf}

NextPGO ==
    \E corrected_poses \in CorrectedInputs :
        \/ PoseGraphOptimization(corrected_poses)
        \/ PoseGraphOptimization4DoF(corrected_poses)

SpecPGO == InitPGO /\ [][NextPGO]_vars

\* observations: landmark 1 is seen by every keyframe and the others by the last two,
\* or landmark 1 by the first two keyframes and the others by the last one only
ObsChoices ==
    {[i \in LmIdx |-> IF i = 1 THEN KfIdx ELSE {NumKF - 1, NumKF}],
     [i \in LmIdx |-> IF i = 1 THEN {1, 2} ELSE {NumKF}]}

\* GetKeyframesVec(): the keyframes by index, or in the reverse order
KeyframeOrders == {[i \in KfIdx |-> i], [i \in KfIdx |-> NumKF + 1 - i]}

\* the sequence indices of the keyframes: consecutive from 0, or with the index of the
\* last keyframe one further, which leaves it without a predecessor
IdChoices == {[k \in KfIdx |-> KfId(k)],
              [k \in KfIdx |-> IF k = NumKF THEN KfId(k + 1) ELSE KfId(k)]}

IterationLimits == {0, 5}
TimeLimits == {0}

InitGBA ==
    /\ \E order \in KeyframeOrders :
          map = [id_map_ |-> 0, keyframes |-> order, clean_calls |-> 0]
    /\ \E valid \in ValidityChoices, obs \in ObsChoices, v \in BOOLEAN, ids \in IdChoices :
          /\ kfs = [k \in KfIdx |->
                      [Keyframe(k, valid[k], Trajectory(1, k),
                                IF valid[k] THEN Trajectory(1, k) ELSE Trajectory(1, k + 1))
                         EXCEPT !.landmarks = {i \in LmIdx : k \in obs[i]}, !.id = ids[k]]]
          /\ lms = [i \in LmIdx |->
                      [Landmark(v \/ i < NumLM, Vec(i, 1, 2), NoKf) EXCEPT !.observations = obs[i]]]
    /\ loops \in {<<>>, <<LoopConstraint(1, NumKF, Tf(MatI, Vec(1, 0, 0)), 1)>>}
    /\ cfg = Config
    /\ pc = "idle"
    /\ call = [name |-> "none"]

NextGBA ==
    \/ \E interations_limit \in IterationLimits, time_limit \in TimeLimits,
          visual_only \in BOOLEAN, outlier_removal \in BOOLEAN :
          GBAOutlierPass(interations_limit, time_limit, visual_only, outlier_removal)
    \/ GBAMainPass

SpecGBA == InitGBA /\ [][NextGBA]_vars

\* maps with a keyframe that was loaded from a file or that an earlier global bundle
\* adjustment optimized, under every setting of the three flags that hold such
\* keyframes constant
FixChoices ==
    [marked : {2, NumKF}, is_loaded : BOOLEAN,
     pgo_fix_kfs_after_gba : BOOLEAN, pgo_fix_poses_loaded_maps : BOOLEAN,
     gba_fix_poses_loaded_maps : BOOLEAN]

InitFix ==
    /\ map = [id_map_ |-> 0, keyframes |-> [i \in KfIdx |-> i], clean_calls |-> 0]
    /\ \E fix \in FixChoices :
          /\ kfs = [k \in KfIdx |->
                      [Keyframe(k, TRUE, Trajectory(1, k), Trajectory(1, k))
                         EXCEPT !.landmarks = {i \in LmIdx : k \in {NumKF - 1, NumKF}},
                                !.is_loaded = (k = fix.marked /\ fix.is_loaded),
                                !.is_gba_optimized = (k = fix.marked /\ ~fix.is_loaded)]]
          /\ cfg = [Config EXCEPT !.pgo_fix_kfs_after_gba = fix.pgo_fix_kfs_after_gba,
                                  !.pgo_fix_poses_loaded_maps = fix.pgo_fix_poses_loaded_maps,
                                  !.gba_fix_poses_loaded_maps = fix.gba_fix_poses_loaded_maps]
    /\ lms = [i \in LmIdx |->
                [Landmark(TRUE, Vec(i, 1, 2), NumKF) EXCEPT !.observations = {NumKF - 1, NumKF}]]
    /\ loops = <<LoopConstraint(1, NumKF, Tf(MatI, Vec(1, 0, 0)), 1)>>
    /\ pc = "idle"
    /\ call = [name |-> "none"]

NextFix == NextPGO \/ NextGBA

SpecFix == InitFix /\ [][NextFix]_vars

\* maps with two loop constraints whose covariance traces lie in the same band or in
\* different bands of the configuration
LoopCovs == {1, 3, 7}

InitLoops ==
    /\ map = [id_map_ |-> 0, keyframes |-> [i \in KfIdx |-> i], clean_calls |-> 0]
    /\ \E valid \in ValidityChoices, s \in DOMAIN InitTfSeq :
          kfs = [k \in KfIdx |-> Keyframe(k, valid[k], Trajectory(s, k), Trajectory(s, k))]
    /\ lms = [i \in LmIdx |-> Landmark(TRUE, Vec(i, 1, 2), NumKF)]
    /\ \E c1 \in LoopCovs, c2 \in LoopCovs :
          loops = <<LoopConstraint(1, NumKF, Tf(MatI, Vec(1, 0, 0)), c1),
                    LoopConstraint(2, NumKF, Tf(ypr2R(<<90, 0, 0>>), Vec(0, 1, 0)), c2)>>
    /\ cfg = Config
    /\ pc = "idle"
    /\ call = [name |-> "none"]

SpecLoops == InitLoops /\ [][NextPGO]_vars

\* thresholds a caller of OptimizeRelativePose passes
ThresholdArguments == {1, 5}

InitORP ==
    /\ map = [id_map_ |-> 0, keyframes |-> [i \in KfIdx |-> i], clean_calls |-> 0]
    /\ kfs = [k \in KfIdx |-> Keyframe(k, TRUE, Trajectory(1, k), Trajectory(1, k))]
    /\ lms = [i \in LmIdx |-> Landmark(TRUE, Vec(i, 1, 2), NoKf)]
    /\ loops = <<>>
    /\ cfg = Config
    /\ pc = "idle"
    /\ call = [name |-> "none"]

NextORP ==
    \E entries \in MatchInputs, T12 \in CorrectedTf, th2 \in ThresholdArguments :
        OptimizeRelativePose(1, NumKF, entries, T12, th2)

SpecORP == InitORP /\ [][NextORP]_vars

\* the windows of a call: query keyframes first, then the candidates
LBAWindows ==
    {<<<<1>>, <<NumKF>>>>, <<<<1, 2>>, <<NumKF>>>>, <<<<1>>, <<NumKF, 2>>>>}

\* the local landmarks of a call: seen from both windows, or also from keyframe 2
LBALandmarks ==
    {<<LocalLM(Vec(1, 1, 2), {1, NumKF})>>,
     <<LocalLM(Vec(1, 1, 2), {1, NumKF}), LocalLM(Vec(2, 1, 2), {2, NumKF})>>}

InitLBA ==
    /\ map = [id_map_ |-> 0, keyframes |-> [i \in KfIdx |-> i], clean_calls |-> 0]
    /\ \E valid \in ValidityChoices, s \in DOMAIN InitTfSeq :
          kfs = [k \in KfIdx |-> Keyframe(k, valid[k], Trajectory(s, k), Trajectory(s, k))]
    /\ lms = [i \in LmIdx |-> Landmark(TRUE, Vec(i, 1, 2), NoKf)]
    /\ loops = <<>>
    /\ cfg = Config
    /\ pc = "idle"
    /\ call = [name |-> "none"]

NextLBA ==
    \E w \in LBAWindows, local_lms \in LBALandmarks, T_s1s2 \in CorrectedTf, cov_BA \in {0} :
        LocalBundleAdjustment(local_lms, w[1], w[2], T_s1s2, cov_BA)

SpecLBA == InitLBA /\ [][NextLBA]_vars

----------------------------------------------------------------------------
(* Properties of the pose-graph procedures.                                *)

Returned(names) == pc = "done" /\ call.name \in names
WroteKfs(names) == pc \in {"done", "aborted"} /\ call.name \in names

\* C1 (as claimed): after every GlobalBundleAdjustment, PoseGraphOptimization and
\* PoseGraphOptimization4DoF call, whatever pre-corrected poses were passed, the world
\* pose of the anchor keyframe equals its world pose before the call.
C1_AnchorPoseUnchanged ==
    Returned({"GBA", "PGO", "PGO4"}) =>
        \A k \in KfIdx : IsAnchor(k) => kfs[k].T_ws = call.pre_kfs[k].T_ws

\* C7: after PoseGraphOptimization4DoF the world rotation of every valid keyframe is
\* Rz(yaw) Ry(pitch) Rx(roll) for some yaw and the pitch and roll decoded from its pose
\* before the call: the call changes yaw and translation only.
C7_RollPitchPreserved ==
    WroteKfs({"PGO4"}) =>
        \A k \in ValidKfs :
            LET ypr == R2ypr(call.pre_kfs[k].T_ws.R)
            IN  \E yaw \in Angles : kfs[k].T_ws.R = ypr2R(<<yaw, ypr[2], ypr[3]>>)

\* C7 witness: a 4-DoF call changed the rotation of a keyframe whose roll is not zero
C7_Witness ==
    /\ Returned({"PGO4"})
    /\ \E k \in ValidKfs :
          /\ kfs[k].T_ws.R # call.pre_kfs[k].T_ws.R
          /\ R2ypr(call.pre_kfs[k].T_ws.R)[3] # 0

\* C8: after either pose-graph procedure returns, every valid landmark with a valid
\* reference keyframe has the world position (new reference pose) * (inverse of the
\* reference pose before the call) * (old world position), so its coordinates in the
\* reference keyframe's frame are those it had before the call.
C8_LandmarkReanchored ==
    Returned({"PGO", "PGO4"}) =>
        \A i \in LmIdx :
            LET r == lms[i].ref
            IN  (lms[i].valid /\ r # NoKf /\ ~IsInvalid(r)) =>
                  /\ lms[i].pos = TfApply(kfs[r].T_ws,
                                          TfApply(TfInv(call.pre_kfs[r].T_ws), call.pre_lms[i].pos))
                  /\ TfApply(TfInv(kfs[r].T_ws), lms[i].pos)
                       = TfApply(TfInv(call.pre_kfs[r].T_ws), call.pre_lms[i].pos)

\* C8 witness: a landmark moved with its reference keyframe
C8_Witness ==
    /\ Returned({"PGO", "PGO4"})
    /\ \E i \in LmIdx :
          /\ lms[i].valid /\ lms[i].ref # NoKf /\ ~IsInvalid(lms[i].ref)
          /\ kfs[lms[i].ref].T_ws # call.pre_kfs[lms[i].ref].T_ws
          /\ lms[i].pos # call.pre_lms[i].pos

\* no pre-corrected pose differs from the keyframe's pose at the call
CorrectedAgree ==
    call.name = "PGO" =>
        \A k \in DOMAIN call.corrected_poses : call.corrected_poses[k] = call.pre_kfs[k].T_ws

\* C9: a pose-graph call on a map with no loop constraints, no pre-corrected pose that
\* differs from the current pose and zero residual on every edge at the initial point
\* leaves every keyframe pose and every landmark position as it was.
C9_ZeroCostFixpoint ==
    (Returned({"PGO", "PGO4"}) /\ loops = <<>> /\ CorrectedAgree /\ call.zero) =>
        /\ \A k \in KfIdx : kfs[k].T_ws = call.pre_kfs[k].T_ws
        /\ \A i \in LmIdx : lms[i].pos = call.pre_lms[i].pos

\* C9 witness: such a call with edges between valid keyframes that are not at the
\* identity, a pre-corrected pose passed in, and a landmark that is re-anchored
C9_Witness ==
    /\ Returned({"PGO"}) /\ loops = <<>> /\ CorrectedAgree /\ call.zero
    /\ DOMAIN call.corrected_poses # {}
    /\ Len(call.factors) >= 2
    /\ \E k \in ValidKfs : kfs[k].T_ws # TfI
    /\ \E i \in LmIdx : lms[i].valid /\ lms[i].ref # NoKf /\ ~IsInvalid(lms[i].ref)

\* the sequential and window factors of the problem of the call, by position
StructuralFactors == {n \in DOMAIN call.factors : call.factors[n].kind \in {"seq", "win"}}

\* C19 (as claimed): after edge construction in either pose-graph procedure no two
\* sequential or window factors connect the same pair of keyframes, in whichever
\* direction each was added.
C19_OneStructuralFactorPerPair ==
    Returned({"PGO", "PGO4"}) =>
        \A m, n \in StructuralFactors :
            {call.factors[m].a, call.factors[m].b} = {call.factors[n].a, call.factors[n].b}
                => m = n

\* the smaller of two numbers
Min(a, b) == IF a < b THEN a ELSE b

\* C20 (as claimed): in either pose-graph procedure the connections collected for a
\* valid keyframe with k temporal predecessors are exactly its min(4, k) closest
\* predecessors.
C20_WindowToClosestPredecessors ==
    Returned({"PGO", "PGO4"}) =>
        \A k \in ValidKfs :
            SeqRange(call.connections[k])
              = {KfWithId(<<kfs[k].id[1] - d, kfs[k].id[2]>>) :
                    d \in 1..Min(WindowSize, kfs[k].id[1])}

\* the loop factors of the problem of the call: they are added first, one per loop
LoopFactorIdx == {n \in DOMAIN call.factors : call.factors[n].kind = "loop"}

C23_InvalidEntitiesSkipped ==
    call.name \in {"PGO", "PGO4"} =>
        /\ pc # "aborted"
        /\ \A k \in KfIdx : ~call.pre_kfs[k].valid =>
              kfs[k].T_ws = call.pre_kfs[k].T_ws /\ kfs[k].vel = call.pre_kfs[k].vel
        /\ \A i \in LmIdx : ~call.pre_lms[i].valid => lms[i].pos = call.pre_lms[i].pos

\* C24: in the 6-DoF procedure the measurement of every sequential and window factor is
\* the relative transform of the two keyframes' map poses at the call, and that of every
\* loop factor is the transform of its loop constraint, whatever pre-corrected poses
\* are passed; the pre-corrected poses appear in the initial block values only.
C24_MeasurementsFromMapPoses ==
    call.name = "PGO" =>
        /\ \A n \in StructuralFactors :
              call.factors[n].meas = TfMul(TfInv(call.pre_kfs[call.factors[n].a].T_ws),
                                           call.pre_kfs[call.factors[n].b].T_ws)
        /\ \A n \in LoopFactorIdx : call.factors[n].meas = loops[n].T_s1_s2
        /\ \A k \in DOMAIN call.corrected_poses :
              call.pre_kfs[k].valid => call.init[k] = PoseToCeres(call.corrected_poses[k])

\* C24 witness: a returned call with a pre-corrected pose that differs from the map pose
\* of a keyframe at the end of a sequential or window factor
C24_Witness ==
    /\ Returned({"PGO"})
    /\ \E k \in DOMAIN call.corrected_poses :
          /\ call.corrected_poses[k] # call.pre_kfs[k].T_ws
          /\ \E n \in StructuralFactors : k \in {call.factors[n].a, call.factors[n].b}

\* C27: in both pose-graph procedures every loop, sequential and window factor connects
\* two keyframes that exist and were valid at the call, so that both pose blocks were
\* given their initial value in the keyframe loop of the call.
C27_FactorsOnInitialisedBlocks ==
    call.name \in {"PGO", "PGO4"} =>
        \A n \in DOMAIN call.factors :
            \A k \in {call.factors[n].a, call.factors[n].b} :
                k \in KfIdx /\ call.pre_kfs[k].valid

----------------------------------------------------------------------------
(* Properties of GlobalBundleAdjustment.                                   *)

\* the observations of landmark i by valid keyframes when the main pass builds its problem
ObservedAtMainBuild(i) == {k \in call.main_lms[i].observations : kfs[k].valid}

\* C2: after GlobalBundleAdjustment returns, every valid landmark with fewer than 2
\* observations by valid keyframes when the main pass built its problem (also one that
\* the outlier pass brought below 2) has no position block and no reprojection factor in
\* the main problem, and its world position and optimized flags are those before the call.
C2_UnderObservedLandmarkUntouched ==
    Returned({"GBA"}) =>
        \A i \in LmIdx :
            (call.pre_lms[i].valid /\ Cardinality(ObservedAtMainBuild(i)) < 2) =>
                /\ i \notin call.main.problem.pos_blocks
                /\ \A n \in DOMAIN call.main.problem.residual_ids :
                      call.main.problem.residual_ids[n][2] # i
                /\ lms[i].pos = call.pre_lms[i].pos
                /\ lms[i].optimized = call.pre_lms[i].optimized
                /\ lms[i].is_gba_optimized = call.pre_lms[i].is_gba_optimized

\* C2 witness: the outlier pass moved the buffer of a landmark and brought it below 2
\* observations, and the main pass moved another landmark
C2_Witness ==
    /\ Returned({"GBA"})
    /\ \E i \in LmIdx :
          /\ call.pre_lms[i].valid
          /\ Cardinality({k \in call.pre_lms[i].observations : kfs[k].valid}) >= 2
          /\ Cardinality(ObservedAtMainBuild(i)) < 2
          /\ lms[i].ceres_pos # lms[i].pos
    /\ \E j \in LmIdx : lms[j].pos # call.pre_lms[j].pos

OutlierPassDone == call.name = "GBA" /\ call.outlier.ran

\* C3 (amended): once the outlier pass has run, every observation it evaluated with a
\* norm above the configured global threshold is erased from the keyframe and from the
\* landmark, and every evaluated observation that is still there had a norm at most
\* the threshold at that evaluation.
C3_OutliersRemovedAtEvaluation ==
    OutlierPassDone =>
        \A n \in DOMAIN call.outlier.problem.residual_ids :
            LET o == call.outlier.problem.residual_ids[n]
                norm == call.outlier.norms[n]
            IN  /\ norm > cfg.th_gba_outlier_global =>
                      (o[2] \notin kfs[o[1]].landmarks /\ o[1] \notin lms[o[2]].observations)
                /\ o[1] \in lms[o[2]].observations => norm <= cfg.th_gba_outlier_global

\* C3 witness: an observation was removed and another one of the same landmark stays
C3_Witness ==
    /\ OutlierPassDone
    /\ \E n, m \in DOMAIN call.outlier.problem.residual_ids :
          LET o == call.outlier.problem.residual_ids[n]
              r == call.outlier.problem.residual_ids[m]
          IN  /\ o[2] = r[2]
              /\ call.outlier.norms[n] > cfg.th_gba_outlier_global
              /\ o[1] \notin lms[o[2]].observations
              /\ r[1] \in lms[r[2]].observations

\* C3 (as claimed): in addition, every observation of the main problem has a norm at
\* most the threshold when its residual is evaluated again after the main solve.
C3_SurvivorsWithinThresholdAfterSolve ==
    /\ C3_OutliersRemovedAtEvaluation
    /\ (Returned({"GBA"}) /\ call.outlier.ran) =>
          \A n \in DOMAIN call.main.problem.residual_ids :
              call.main.post[n] <= cfg.th_gba_outlier_global

\* keyframe k is valid, and its temporal predecessor is missing or invalid
NoValidPredecessor(k) ==
    /\ ~IsInvalid(k)
    /\ GetPredecessor(k) = NoKf \/ IsInvalid(GetPredecessor(k))

\* nothing a solve produces has reached the entities
NothingWrittenBack ==
    /\ \A k \in KfIdx :
          /\ kfs[k].T_ws = call.pre_kfs[k].T_ws /\ kfs[k].vel = call.pre_kfs[k].vel
          /\ kfs[k].pose_optimized = call.pre_kfs[k].pose_optimized
          /\ kfs[k].is_gba_optimized = call.pre_kfs[k].is_gba_optimized
    /\ \A i \in LmIdx :
          /\ lms[i].pos = call.pre_lms[i].pos /\ lms[i].optimized = call.pre_lms[i].optimized
    /\ map.clean_calls = 0

\* C11: in visual-inertial mode a valid keyframe with a sequence index other than 0 and
\* no valid predecessor makes GlobalBundleAdjustment abort in the first problem it
\* builds, with no solve result written back; a keyframe with index 0 in that situation
\* is in the problem without an IMU factor and the call can complete; in visual-only
\* mode the call never aborts.
C11_NoPredecessorAborts ==
    call.name = "GBA" =>
        /\ (~call.visual_only /\ \E k \in KfIdx : NoValidPredecessor(k) /\ kfs[k].id[1] # 0) =>
               /\ pc # "done"
               /\ pc = "gba_main" => ~call.outlier_removal
               /\ ~call.outlier.ran /\ ~call.main.ran
               /\ NothingWrittenBack
        /\ (pc = "done" /\ ~call.visual_only) =>
               \A k \in KfIdx : (NoValidPredecessor(k) /\ kfs[k].id[1] = 0) =>
                   /\ k \in call.main.init.pose_blocks /\ k \in call.main.init.vb_blocks
                   /\ \A n \in DOMAIN call.main.init.imu_factors :
                         call.main.init.imu_factors[n][2] # k
        /\ call.visual_only => pc # "aborted"

\* C11 witness: an aborted visual-inertial call on a map whose last keyframe has a
\* sequence index other than 0 and no predecessor at all
C11_Witness ==
    /\ call.name = "GBA" /\ pc = "aborted" /\ ~call.visual_only /\ call.outlier_removal
    /\ NoValidPredecessor(NumKF) /\ GetPredecessor(NumKF) = NoKf

\* C11 witness: a completed visual-inertial call with a keyframe of index 0 that has no
\* predecessor, and a completed visual-only call with a keyframe of another index that
\* has none
C11_WitnessRootSkipped ==
    /\ call.name = "GBA" /\ pc = "done" /\ ~call.visual_only
    /\ \E k \in KfIdx : NoValidPredecessor(k) /\ kfs[k].id[1] = 0
    /\ call.main.init.imu_factors # <<>>

\* C12 (as claimed): the main solve of GlobalBundleAdjustment runs with the caller's
\* iteration cap as its iteration limit and the caller's time budget as its time limit.
C12_MainSolveBoundedByBothLimits ==
    (call.name = "GBA" /\ pc = "done") =>
        /\ call.main.solver_options.max_num_iterations = call.interations_limit
        /\ call.main.solver_options.max_solver_time_in_seconds = call.time_limit

\* C13: a GlobalBundleAdjustment call that returns has invoked the map's cleanup exactly
\* once, on a map in which every valid keyframe and every included landmark already
\* holds the solution of the main solve; before the return, and in a call that aborts,
\* the cleanup has not been invoked.
C13_CleanOnceAfterWriteBack ==
    call.name = "GBA" =>
        /\ pc \in {"gba_main", "aborted"} => map.clean_calls = 0
        /\ pc = "done" =>
              /\ map.clean_calls = 1
              /\ \A k \in ValidKfs :
                    call.main.clean_at.kfs[k].T_ws = Ceres2Transform(call.main.problem.pose[k])
              /\ \A i \in LmIdx : (lms[i].valid /\ i \notin call.main.problem.not_included_lms) =>
                    call.main.clean_at.lms[i].pos = call.main.problem.pos[i]

\* C13 witness: a returned call whose main solve moved a keyframe and a landmark
C13_Witness ==
    /\ call.name = "GBA" /\ pc = "done" /\ map.clean_calls = 1
    /\ \E k \in ValidKfs : kfs[k].T_ws # call.pre_kfs[k].T_ws
    /\ \E i \in LmIdx : lms[i].pos # call.pre_lms[i].pos

\* the observations the outlier pass of the call found above the threshold
RemovedByOutlierPass == GBAOutliers(call.outlier.problem.residual_ids, call.outlier.norms)

\* C14: when GlobalBundleAdjustment aborts in the main pass after the outlier pass has
\* run, the observations the outlier pass removed are missing from keyframe and landmark,
\* every other observation is as before the call, and every keyframe pose and landmark
\* position equals its value before the call.
C14_AbortLeavesPostRemovalState ==
    (call.name = "GBA" /\ pc = "aborted" /\ call.outlier.ran) =>
        /\ \A k \in KfIdx :
              /\ kfs[k].landmarks =
                     call.pre_kfs[k].landmarks \ {i \in LmIdx : <<k, i>> \in RemovedByOutlierPass}
              /\ kfs[k].T_ws = call.pre_kfs[k].T_ws
        /\ \A i \in LmIdx :
              /\ lms[i].observations =
                     call.pre_lms[i].observations \ {k \in KfIdx : <<k, i>> \in RemovedByOutlierPass}
              /\ lms[i].pos = call.pre_lms[i].pos

\* C14 witness: the main pass aborted after the outlier pass removed an observation
\* that keyframe and landmark had before the call
C14_Witness ==
    /\ call.name = "GBA" /\ pc = "aborted" /\ call.outlier.ran
    /\ \E o \in RemovedByOutlierPass :
          o[2] \in call.pre_kfs[o[1]].landmarks /\ o[1] \in call.pre_lms[o[2]].observations

\* C15 (as claimed): with the flag that holds loaded keyframes constant set, the pose of
\* every valid loaded keyframe is unchanged by GlobalBundleAdjustment and by both
\* pose-graph procedures; with the flag that holds globally optimized keyframes constant
\* set, the pose of every valid keyframe that was globally optimized is unchanged by
\* both pose-graph procedures.
C15_FixedKeyframesUnchanged ==
    /\ (Returned({"GBA"}) /\ cfg.gba_fix_poses_loaded_maps) =>
          \A k \in ValidKfs : kfs[k].is_loaded => kfs[k].T_ws = call.pre_kfs[k].T_ws
    /\ (Returned({"PGO", "PGO4"}) /\ cfg.pgo_fix_poses_loaded_maps) =>
          \A k \in ValidKfs : kfs[k].is_loaded => kfs[k].T_ws = call.pre_kfs[k].T_ws
    /\ (Returned({"PGO", "PGO4"}) /\ cfg.pgo_fix_kfs_after_gba) =>
          \A k \in ValidKfs :
              call.pre_kfs[k].is_gba_optimized => kfs[k].T_ws = call.pre_kfs[k].T_ws

\* the loop factors of a problem without their loss
LoopEndpoints(p) == {<<e.a, e.b, e.meas>> : e \in {p.loop_edges[n] : n \in DOMAIN p.loop_edges}}

\* C17 (as claimed): when the outlier pass removed nothing, so that both passes build
\* from the same map state, the problem of the outlier pass and the problem of the main
\* pass have the same parameter blocks, the same constant blocks and the same IMU,
\* reprojection and loop factors.
C17_PassesBuildSameProblem ==
    (Returned({"GBA"}) /\ call.outlier.ran /\ RemovedByOutlierPass = {}) =>
        LET first == call.outlier.problem
            second == call.main.init
        IN  /\ first.pose_blocks = second.pose_blocks
            /\ first.vb_blocks = second.vb_blocks
            /\ first.pos_blocks = second.pos_blocks
            /\ first.constant = second.constant
            /\ first.imu_factors = second.imu_factors
            /\ first.residual_ids = second.residual_ids
            /\ LoopEndpoints(first) = LoopEndpoints(second)

\* the keyframes of the loop factors of a problem
LoopKfs(p) == UNION {{e[1], e[2]} : e \in LoopEndpoints(p)}

\* C18 (as claimed): in the problem of the outlier pass and in the problem of the main
\* pass, both endpoints of every loop factor are keyframes whose pose block the
\* "Add Keyframes" loop of that pass added, that is valid keyframes.
C18_LoopFactorsOnAddedBlocks ==
    call.name = "GBA" =>
        /\ call.outlier.ran => \A k \in LoopKfs(call.outlier.problem) : ~IsInvalid(k)
        /\ call.main.ran => \A k \in LoopKfs(call.main.init) : ~IsInvalid(k)

\* C25: after the outlier pass of GlobalBundleAdjustment a keyframe holds a landmark
\* exactly if the landmark records an observation by the keyframe; each removed outlier
\* is missing on both sides, and every other observation is still there on both sides.
C25_BackLinksConsistent ==
    OutlierPassDone =>
        \A k \in KfIdx, i \in LmIdx :
            /\ (i \in kfs[k].landmarks) <=> (k \in lms[i].observations)
            /\ <<k, i>> \in RemovedByOutlierPass => i \notin kfs[k].landmarks
            /\ <<k, i>> \notin RemovedByOutlierPass =>
                  /\ (i \in kfs[k].landmarks) <=> (i \in call.pre_kfs[k].landmarks)
                  /\ (k \in lms[i].observations) <=> (k \in call.pre_lms[i].observations)

\* C25 witness: the outlier pass has removed one observation of a landmark and kept
\* another observation of the same landmark
C25_Witness ==
    /\ OutlierPassDone /\ pc = "gba_main"
    /\ \E o \in RemovedByOutlierPass :
          /\ o[2] \in call.pre_kfs[o[1]].landmarks
          /\ \E k \in KfIdx : k # o[1] /\ k \in lms[o[2]].observations

\* C26: the outlier pass of GlobalBundleAdjustment writes no pose, velocity, bias or
\* position: when the main pass starts, every keyframe's pose and velocity and biases
\* and every landmark's position are those before the call, and the main pass sets
\* every pose, velocity-and-bias and position block it adds from them.
C26_OutlierPassValuesDiscarded ==
    OutlierPassDone =>
        /\ pc = "gba_main" =>
              /\ \A k \in KfIdx :
                    /\ kfs[k].T_ws = call.pre_kfs[k].T_ws /\ kfs[k].vel = call.pre_kfs[k].vel
                    /\ kfs[k].pose_optimized = call.pre_kfs[k].pose_optimized
                    /\ kfs[k].is_gba_optimized = call.pre_kfs[k].is_gba_optimized
              /\ \A i \in LmIdx :
                    lms[i].pos = call.pre_lms[i].pos /\ lms[i].optimized = call.pre_lms[i].optimized
        /\ call.main.ran =>
              /\ \A k \in call.main.init.pose_blocks :
                    call.main.init.pose[k] = PoseToCeres(call.pre_kfs[k].T_ws)
              /\ \A k \in call.main.init.vb_blocks : call.main.init.vb[k] = call.pre_kfs[k].vel
              /\ \A i \in call.main.init.pos_blocks : call.main.init.pos[i] = call.pre_lms[i].pos

\* C26 witness: a call whose first round moved a pose block and a position block away
\* from the entity state and removed an outlier, and whose main pass ran
C26_Witness ==
    /\ OutlierPassDone /\ call.main.ran /\ RemovedByOutlierPass # {}
    /\ \E k \in call.main.init.pose_blocks :
          call.outlier.problem.pose[k] # PoseToCeres(call.pre_kfs[k].T_ws)
    /\ \E i \in call.main.init.pos_blocks : call.outlier.problem.pos[i] # call.pre_lms[i].pos

\* C28: visual-inertial GlobalBundleAdjustment on a map in which every valid keyframe
\* has a valid predecessor or is the first of its agent does not abort, in whichever
\* order the map lists the keyframes, and its main pass has the IMU factor between every
\* valid keyframe with IMU measurements and its valid predecessor.
C28_EnumerationOrderIrrelevant ==
    (/\ call.name = "GBA" /\ ~call.visual_only
     /\ \A k \in KfIdx : NoValidPredecessor(k) => kfs[k].id[1] = 0) =>
        /\ pc # "aborted"
        /\ call.main.ran =>
              \A k \in ValidKfs :
                  (~NoValidPredecessor(k) /\ kfs[k].num_imu > 0) =>
                      \E n \in DOMAIN call.main.init.imu_factors :
                          call.main.init.imu_factors[n] = <<GetPredecessor(k), k>>

----------------------------------------------------------------------------
(* Properties of OptimizeRelativePose.                                     *)

NonNullMatches == {i \in DOMAIN call.entries : call.entries[i].mpb # "null"}

\* C4: the value OptimizeRelativePose returns is at most the number of non-null
\* entries of the match vector it was given.
C4_ReturnAtMostNonNull ==
    Returned({"ORP"}) => call.ret <= Cardinality(NonNullMatches)

\* C4 witness: a successful call on a vector with a null entry, a non-null entry that
\* is not eligible, and an outlier
C4_Witness ==
    /\ Returned({"ORP"})
    /\ call.ret >= 12
    /\ call.numBad > 0
    /\ \E i \in DOMAIN call.entries : call.entries[i].mpb = "null"
    /\ \E i \in NonNullMatches : ~Eligible(call.entries[i])

\* the correspondences left after the classification, counted from the inputs of the
\* call and the evaluated norms
RemainingInliers ==
    Cardinality({i \in DOMAIN call.entries : Eligible(call.entries[i])})
      - Cardinality({i \in DOMAIN call.norms :
                        \/ call.norms[i].A > cfg.th_outlier_align
                        \/ call.norms[i].B > cfg.th_outlier_align})

\* C5: OptimizeRelativePose returns 0 when fewer than 12 correspondences remain after
\* the classification and the number that remain otherwise; it never returns 1..11.
C5_ZeroBelowTwelve ==
    Returned({"ORP"}) =>
        /\ call.ret = IF RemainingInliers < 12 THEN 0 ELSE RemainingInliers
        /\ call.ret \notin 1..11

\* C5 witness: 12 correspondences were eligible, an outlier left 11, and 0 is returned
C5_Witness ==
    /\ Returned({"ORP"})
    /\ call.numCorrespondences = 12
    /\ RemainingInliers = 11
    /\ call.ret = 0

\* C6 (as claimed): a correspondence is classified as an outlier exactly when the norm
\* of one of its two residuals exceeds the threshold the caller passed.
C6_ArgumentThresholdClassifies ==
    Returned({"ORP"}) =>
        \A i \in DOMAIN call.norms :
            i \in call.bad <=> (call.norms[i].A > call.th2 \/ call.norms[i].B > call.th2)

\* C16 (as claimed): the entries of the match vector that the call nulled are exactly
\* the entries of the correspondences classified as outliers, that is the entries at
\* the positions vIndex holds for them.
C16_NulledEntriesAreOutliers ==
    Returned({"ORP"}) =>
        \A i \in DOMAIN call.entries :
            (call.matches1[i] = "null" /\ call.entries[i].mpb # "null")
                <=> \E j \in call.bad : call.vIndex[j] = i

\* C29: when OptimizeRelativePose returns 0 the caller's T12 is the transform that was
\* passed in.
C29_FailureLeavesTransform ==
    (Returned({"ORP"}) /\ call.ret = 0) => call.T12 = call.T12_in

\* C29 witness: a call that returns 0 after its first solve moved the pose block away
\* from the transform passed in
C29_Witness ==
    /\ Returned({"ORP"}) /\ call.ret = 0
    /\ call.numCorrespondences > 0
    /\ Ceres2Transform(call.ceresAB) # call.T12_in

----------------------------------------------------------------------------
(* Properties of LocalBundleAdjustment.                                    *)

\* C10 (as claimed): when LocalBundleAdjustment returns, the transform decoded from the
\* first candidate keyframe's local pose block has reached the caller, as the return
\* value or in the transform the caller passed, and the caller holds the covariance.
C10_RefinedTransformDelivered ==
    Returned({"LBA"}) =>
        /\ \/ call.ret = Ceres2Transform(kfs[call.CKFs[1]].ceres_pose_local_)
           \/ call.caller.T_s1s2 = Ceres2Transform(kfs[call.CKFs[1]].ceres_pose_local_)
        /\ call.caller.cov_BA \in CovValues

\* C30: LocalBundleAdjustment changes no map state: every keyframe and every landmark of
\* the map is after the call as before it except for the keyframes' optimization
\* buffers, and the stored local position of every local landmark is the one passed in.
C30_MapStateUnchanged ==
    (call.name = "LBA" /\ pc \in {"done", "aborted"}) =>
        /\ \A k \in KfIdx :
              kfs[k] = [call.pre_kfs[k] EXCEPT !.ceres_pose = kfs[k].ceres_pose,
                                               !.ceres_velocity_and_bias = kfs[k].ceres_velocity_and_bias,
                                               !.ceres_pose_local_ = kfs[k].ceres_pose_local_]
        /\ lms = call.pre_lms
        /\ map.clean_calls = 0
        /\ pc = "done" =>
              \A i \in DOMAIN call.lms :
                  /\ call.lms[i].pos_l_ = call.lms_in[i].pos_l_
                  /\ call.lms[i].observations_ = call.lms_in[i].observations_

\* C30 witness: a returned call whose solve moved the local pose block of a window
\* keyframe away from its world pose and the position block of a local landmark away
\* from the stored local position
C30_Witness ==
    /\ Returned({"LBA"})
    /\ \E k \in SeqRange(call.QKFs) \cup SeqRange(call.CKFs) :
          /\ kfs[k].ceres_pose_local_ #
                 PoseToCeres(LBALocalPose(k, call.QKFs, call.CKFs, call.T_s1s2_in))
          /\ Ceres2Transform(kfs[k].ceres_pose_local_) # kfs[k].T_ws
    /\ \E i \in DOMAIN call.lms : call.lms[i].ceres_pos_ # call.lms[i].pos_l_

====
